---- MODULE Spec2Model ----
(***************************************************************************)
(* The Streamlit OCR page of src/app.py as a state machine.                *)
(*                                                                         *)
(* One server process holds the st.cache_resource cache of load_model, a   *)
(* temporary directory and a clock.  Session 0 is a browser session whose  *)
(* script runs of main() are followed statement by statement; the other    *)
(* sessions run the same script, of which only load_model touches state    *)
(* shared with session 0 (their session_state and temporary files are      *)
(* their own).  A script run starts on a user event (page load, upload,    *)
(* start button, any other widget) and runs to its end or to an uncaught   *)
(* exception.  main() only ever subtracts two readings of time.time()      *)
(* taken in one run, so the clock is kept relative to the start of the     *)
(* run in progress.                                                        *)
(*                                                                         *)
(* Spec is session 0 alone, conversions included.  SpecSessions is all the *)
(* sessions racing for load_model, with no conversion started.             *)
(***************************************************************************)
EXTENDS Integers, Sequences, FiniteSets, TLC

\* Bounds of the model.
NumDocs == 2
NumOthers == 1
MaxClicks == 2
MaxClock == 1
MaxConstruct == 1

Docs == 1..NumDocs
Others == 1..NumOthers
Sessions == 0..NumOthers

\* Python's None and a present value.
None == <<>>
Some(v) == <<v>>

VARIABLES
  cache,          \* st.cache_resource entry of load_model: None or Some(handle)
  lock,           \* the cache's compute lock: None or Some(session)
  constructed,    \* executions of load_model's body so far
  handles,        \* engine handles that exist in the process
  returned,       \* handles load_model has returned to a caller
  now,            \* time.time(), counted from the start of session 0's run
  fs,             \* names of the files in the temporary directory
  tmp_bytes,      \* what the file `created` holds: None (empty) or Some(bytes)
  pc,             \* per session: position of its script run
  uploaded_file,  \* session 0: value of st.file_uploader
  uploader_shown, \* session 0: the uploader widget is on the page
  button,         \* session 0: value of st.button in this run
  session_state,  \* session 0: st.session_state
  converter,      \* session 0: locals of main()
  start_time,
  temp_path,
  text,
  elapsed_time,
  tWritten,       \* when the temporary file had been written and closed
  shownError,     \* session 0: st.error emitted by this run
  shownResult,    \* session 0: the result section rendered by this run
  uncaught,       \* session 0: exception that left main() in this run
  created,        \* the file NamedTemporaryFile created in this run
  last,           \* the latest conversion attempt, once its outcome is known
  prev,           \* the attempt before it
  lastOk,         \* document and elapsed time of the latest successful conversion
  clicks,         \* start-button clicks made with a document uploaded
  engineCalls,    \* calls of converter(pdf_path)
  aborted         \* attempts that ended before the engine was called

procVars == <<cache, lock, constructed, handles, returned>>
uiVars == <<uploaded_file, uploader_shown, button>>
localVars == <<converter, start_time, temp_path, text, elapsed_time, tWritten,
               tmp_bytes>>
outVars == <<shownError, shownResult, uncaught>>
histVars == <<created, last, prev, lastOk, clicks, engineCalls, aborted>>
vars == <<procVars, now, fs, pc, uiVars, session_state, localVars, outVars, histVars>>

NoAttempt == [doc |-> 0, outcome |-> "none", handle |-> None, elapsed |-> None]

\* The engine and text_from_rendered are opaque: the text depends on the bytes
\* of the file the engine is given, and differs between documents.
EngineText(bytes) == 10 * bytes

\* The bytes of the file at `path`; files left by earlier runs are never read.
FileBytes(path) == IF created = Some(path) THEN tmp_bytes ELSE None

\* process_pdf(converter, pdf_path): the engine reads the file at pdf_path.
process_pdf(c, pdf_path) == EngineText(FileBytes(pdf_path)[1])

\* 'key' not in st.session_state  =>  st.session_state.key = None
WithDefault(ss, key) ==
  IF key \in DOMAIN ss THEN ss ELSE ss @@ (key :> None)

\* time.time() - start_time
Elapsed(t, start) == t - start

\* A file name the temporary directory does not hold yet.
FreshPath == CHOOSE p \in 1..(Cardinality(fs) + 1) : p \notin fs

Init ==
  /\ cache = None
  /\ lock = None
  /\ constructed = 0
  /\ handles = {}
  /\ returned = {}
  /\ now = 0
  /\ fs = {}
  /\ tmp_bytes = None
  /\ pc = [s \in Sessions |-> "idle"]
  /\ uploaded_file = None
  /\ uploader_shown = FALSE
  /\ button = FALSE
  /\ session_state = <<>>
  /\ converter = None
  /\ start_time = None
  /\ temp_path = None
  /\ text = None
  /\ elapsed_time = None
  /\ tWritten = None
  /\ shownError = FALSE
  /\ shownResult = None
  /\ uncaught = None
  /\ created = None
  /\ last = NoAttempt
  /\ prev = NoAttempt
  /\ lastOk = [doc |-> 0, elapsed |-> None]
  /\ clicks = 0
  /\ engineCalls = 0
  /\ aborted = 0

Goto(s, l) == pc' = [pc EXCEPT ![s] = l]

\* The script run of session 0 is over: its locals are gone.
EndRun ==
  /\ Goto(0, "idle")
  /\ now' = 0
  /\ converter' = None
  /\ start_time' = None
  /\ temp_path' = None
  /\ text' = None
  /\ elapsed_time' = None
  /\ tWritten' = None
  /\ tmp_bytes' = None

\* The outcome of the attempt in progress is known.
Record(outcome, e) ==
  /\ prev' = [last EXCEPT !.elapsed = None]
  /\ last' = [doc |-> uploaded_file[1], outcome |-> outcome,
              handle |-> converter, elapsed |-> e]
  /\ lastOk' = IF outcome = "ok"
                 THEN [doc |-> uploaded_file[1], elapsed |-> e]
                 ELSE lastOk

----------------------------------------------------------------------------
\* User events of session 0: each starts a script run from the top.

BeginRun(b) ==
  /\ pc[0] = "idle"
  /\ Goto(0, "load_model")
  /\ button' = b
  /\ shownError' = FALSE
  /\ shownResult' = None
  /\ uncaught' = None
  /\ created' = None
  /\ UNCHANGED <<procVars, now, fs, uploader_shown, session_state, localVars,
                 last, prev, lastOk, engineCalls, aborted>>

\* Page load, or a widget other than the uploader and the start button
\* (a download button, ...).
Rerender ==
  /\ BeginRun(FALSE)
  /\ UNCHANGED <<uploaded_file, clicks>>

Upload(d) ==
  /\ uploader_shown
  /\ uploaded_file # Some(d)
  /\ BeginRun(FALSE)
  /\ uploaded_file' = Some(d)
  /\ UNCHANGED clicks

RemoveUpload ==
  /\ uploaded_file # None
  /\ BeginRun(FALSE)
  /\ uploaded_file' = None
  /\ UNCHANGED clicks

\* The start button is on the page only below an uploaded file.
ClickStart ==
  /\ uploaded_file # None
  /\ clicks < MaxClicks
  /\ BeginRun(TRUE)
  /\ clicks' = clicks + 1
  /\ UNCHANGED uploaded_file

----------------------------------------------------------------------------
\* converter = load_model(), under @st.cache_resource: a hit returns the cached
\* object; a miss takes the compute lock, looks again, and runs the body.

sessVars == <<uiVars, session_state, start_time, temp_path, text, elapsed_time,
              tWritten, tmp_bytes, shownError, shownResult, histVars>>

\* load_model has returned h to session s.
Return(s, h) ==
  /\ returned' = returned \cup {h}
  /\ converter' = IF s = 0 THEN Some(h) ELSE converter
  /\ Goto(s, "body")

\* load_model without its cache: every call builds an engine.
LoadModelHit_Rebuild(s) ==
  /\ pc[s] = "load_model"
  /\ cache # None
  /\ cache' = Some(constructed + 1)
  /\ handles' = handles \cup {constructed + 1}
  /\ Return(s, constructed + 1)
  /\ constructed' = constructed + 1
  /\ UNCHANGED <<lock, now, fs, sessVars, uncaught>>

LoadModelHit(s) ==
  /\ pc[s] = "load_model"
  /\ cache # None
  /\ Return(s, cache[1])
  /\ UNCHANGED <<cache, lock, constructed, handles, now, fs, sessVars, uncaught>>

\* The first look misses.
LoadModelMiss(s) ==
  /\ pc[s] = "load_model"
  /\ cache = None
  /\ Goto(s, "wait_lock")
  /\ UNCHANGED <<procVars, now, fs, converter, sessVars, uncaught>>

\* A script run of another session begins.
OtherRerun(o) ==
  /\ pc[o] = "idle"
  /\ Goto(o, "load_model")
  /\ UNCHANGED <<procVars, now, fs, converter, sessVars, uncaught>>

\* The rest of main() in another session: its own session_state, its own files.
OtherBody(o) ==
  /\ pc[o] = "body"
  /\ Goto(o, "idle")
  /\ UNCHANGED <<procVars, now, fs, converter, sessVars, uncaught>>

\* A cache whose misses do not wait for one another.
LoadModelLock_NoWait(s) ==
  /\ pc[s] = "wait_lock"
  /\ lock' = Some(s)
  /\ Goto(s, "compute")
  /\ UNCHANGED <<cache, constructed, handles, returned, now, fs, converter,
                 sessVars, uncaught>>

LoadModelLock(s) ==
  /\ pc[s] = "wait_lock"
  /\ lock = None
  /\ lock' = Some(s)
  /\ Goto(s, "compute")
  /\ UNCHANGED <<cache, constructed, handles, returned, now, fs, converter,
                 sessVars, uncaught>>

\* Under the lock the cache is read again.
LoadModelRecheck(s) ==
  /\ pc[s] = "compute"
  /\ cache # None
  /\ Return(s, cache[1])
  /\ lock' = None
  /\ UNCHANGED <<cache, constructed, handles, now, fs, sessVars, uncaught>>

\* The second look misses too: the body of load_model starts.
LoadModelCompute(s) ==
  /\ pc[s] = "compute"
  /\ cache = None
  /\ Goto(s, "construct")
  /\ UNCHANGED <<procVars, now, fs, converter, sessVars, uncaught>>

\* create_model_dict and PdfConverter return: the new handle is cached.
ConstructOk(s) ==
  /\ pc[s] = "construct"
  /\ cache' = Some(constructed + 1)
  /\ handles' = handles \cup {constructed + 1}
  /\ Return(s, constructed + 1)
  /\ constructed' = constructed + 1
  /\ lock' = None
  /\ UNCHANGED <<now, fs, sessVars, uncaught>>

\* create_model_dict or PdfConverter raises (no GPU, out of memory): nothing is
\* cached and the exception leaves main().
ConstructFail(s) ==
  /\ pc[s] = "construct"
  /\ constructed < MaxConstruct
  /\ constructed' = constructed + 1
  /\ lock' = None
  /\ Goto(s, "idle")
  /\ uncaught' = IF s = 0 THEN Some("load_model") ELSE uncaught
  /\ now' = IF s = 0 THEN 0 ELSE now
  /\ UNCHANGED <<cache, handles, returned, fs, converter, sessVars>>

----------------------------------------------------------------------------
\* main() of session 0 below load_model.

\* main() starting a conversion on every run that has an uploaded file.
InitState_NoButtonGuard ==
  /\ pc[0] = "body"
  /\ uploader_shown' = TRUE
  /\ session_state' = WithDefault(WithDefault(session_state, "ocr_result"), "ocr_time")
  /\ IF uploaded_file = None
       THEN EndRun
       ELSE /\ Goto(0, "start_timer")
            /\ UNCHANGED <<now, localVars>>
  /\ UNCHANGED <<procVars, fs, uploaded_file, button, outVars, histVars>>

\* Lines 47-77: the uploader, the session-state defaults, the two guards.
InitState ==
  /\ pc[0] = "body"
  /\ uploader_shown' = TRUE
  /\ session_state' = WithDefault(WithDefault(session_state, "ocr_result"), "ocr_time")
  /\ IF uploaded_file = None
       THEN EndRun
       ELSE /\ Goto(0, IF button THEN "start_timer" ELSE "display")
            /\ UNCHANGED <<now, localVars>>
  /\ UNCHANGED <<procVars, fs, uploaded_file, button, outVars, histVars>>

\* Line 78.
StartTimer ==
  /\ pc[0] = "start_timer"
  /\ start_time' = Some(now)
  /\ Goto(0, "tmp_create")
  /\ UNCHANGED <<procVars, now, fs, uiVars, session_state, converter, temp_path,
                 text, elapsed_time, tWritten, tmp_bytes, outVars, histVars>>

\* tempfile.NamedTemporaryFile(delete=False, suffix=".pdf") creates a new file.
TmpCreateOk ==
  /\ pc[0] = "tmp_create"
  /\ fs' = fs \cup {FreshPath}
  /\ created' = Some(FreshPath)
  /\ Goto(0, "tmp_write")
  /\ UNCHANGED <<procVars, now, uiVars, session_state, localVars, outVars,
                 last, prev, lastOk, clicks, engineCalls, aborted>>

\* ... or raises OSError: line 81 is outside the try.
TmpCreateFail ==
  /\ pc[0] = "tmp_create"
  /\ uncaught' = Some("tmp_create")
  /\ aborted' = aborted + 1
  /\ Record("io_fail", None)
  /\ EndRun
  /\ UNCHANGED <<procVars, fs, uiVars, session_state, shownError, shownResult,
                 created, clicks, engineCalls>>

\* tmp_file.write(pdf_bytes); temp_path = tmp_file.name; the with block closes.
TmpWriteOk ==
  /\ pc[0] = "tmp_write"
  /\ tmp_bytes' = uploaded_file
  /\ temp_path' = created
  /\ tWritten' = Some(now)
  /\ Goto(0, "engine_call")
  /\ UNCHANGED <<procVars, now, fs, uiVars, session_state, converter, start_time,
                 text, elapsed_time, outVars, histVars>>

\* write raises (disk full): the with block closes the file, which delete=False
\* keeps, and the exception leaves main().
TmpWriteFail ==
  /\ pc[0] = "tmp_write"
  /\ uncaught' = Some("tmp_write")
  /\ aborted' = aborted + 1
  /\ Record("io_fail", None)
  /\ EndRun
  /\ UNCHANGED <<procVars, fs, uiVars, session_state, shownError, shownResult,
                 created, clicks, engineCalls>>

\* process_pdf is entered: converter(pdf_path) starts.
EngineCall ==
  /\ pc[0] = "engine_call"
  /\ engineCalls' = engineCalls + 1
  /\ Goto(0, "engine_run")
  /\ UNCHANGED <<procVars, now, fs, uiVars, session_state, localVars, outVars,
                 created, last, prev, lastOk, clicks, aborted>>

\* Lines 88-90: process_pdf returns the text, then the elapsed time is taken.
EngineReturn ==
  /\ pc[0] = "engine_run"
  /\ text' = Some(process_pdf(converter, temp_path[1]))
  /\ elapsed_time' = Some(Elapsed(now, start_time[1]))
  /\ Record("ok", elapsed_time')
  /\ Goto(0, "store_result")
  /\ UNCHANGED <<procVars, now, fs, uiVars, session_state, converter, start_time,
                 temp_path, tWritten, tmp_bytes, outVars, created, clicks,
                 engineCalls, aborted>>

\* Lines 96-97: process_pdf raises; the except branch shows st.error.
EngineRaise ==
  /\ pc[0] = "engine_run"
  /\ shownError' = TRUE
  /\ Record("engine_fail", None)
  /\ Goto(0, "finally")
  /\ UNCHANGED <<procVars, now, fs, uiVars, session_state, localVars, shownResult,
                 uncaught, created, clicks, engineCalls, aborted>>

\* Line 93.
StoreResult ==
  /\ pc[0] = "store_result"
  /\ session_state' = [session_state EXCEPT !["ocr_result"] = text]
  /\ Goto(0, "store_time")
  /\ UNCHANGED <<procVars, now, fs, uiVars, localVars, outVars, histVars>>

\* Line 94 left out: the text is stored without its time.
StoreTime_Skipped ==
  /\ pc[0] = "store_time"
  /\ Goto(0, "finally")
  /\ UNCHANGED <<procVars, now, fs, uiVars, session_state, localVars, outVars,
                 histVars>>

\* Line 94.
StoreTime ==
  /\ pc[0] = "store_time"
  /\ session_state' = [session_state EXCEPT !["ocr_time"] = elapsed_time]
  /\ Goto(0, "finally")
  /\ UNCHANGED <<procVars, now, fs, uiVars, localVars, outVars, histVars>>

\* Lines 98-101: os.path.exists, os.remove.
FinallyOk ==
  /\ pc[0] = "finally"
  /\ fs' = IF temp_path[1] \in fs THEN fs \ {temp_path[1]} ELSE fs
  /\ Goto(0, "display")
  /\ UNCHANGED <<procVars, now, uiVars, session_state, localVars, outVars, histVars>>

\* os.remove raises (permissions, a scanner holding the file): nothing catches it.
FinallyFail ==
  /\ pc[0] = "finally"
  /\ temp_path[1] \in fs
  /\ uncaught' = Some("os_remove")
  /\ EndRun
  /\ UNCHANGED <<procVars, fs, uiVars, session_state, shownError, shownResult,
                 histVars>>

\* What lines 104-179 put on the page: the uploaded PDF beside the stored text.
ResultSection ==
  IF session_state["ocr_result"] # None
    THEN Some([pdf |-> uploaded_file[1],
               text |-> session_state["ocr_result"],
               time |-> session_state["ocr_time"]])
    ELSE None

Display ==
  /\ pc[0] = "display"
  /\ shownResult' = ResultSection
  /\ EndRun
  /\ UNCHANGED <<procVars, fs, uiVars, session_state, shownError, uncaught, histVars>>

\* Time passes.  The clock is read at lines 78 and 90 only, so time that
\* passes outside the stages from one to the other changes nothing.
Timed == {"start_timer", "tmp_create", "tmp_write", "engine_call", "engine_run"}

Tick ==
  /\ pc[0] \in Timed
  /\ now < MaxClock
  /\ now' = now + 1
  /\ UNCHANGED <<procVars, fs, pc, uiVars, session_state, localVars, outVars, histVars>>

\* One browser session on its own.  (LoadModelRecheck needs a second session:
\* alone, nobody fills the cache while session 0 waits for the lock.)
Next ==
  \/ Rerender
  \/ \E d \in Docs : Upload(d)
  \/ RemoveUpload
  \/ ClickStart
  \/ LoadModelHit(0)
  \/ LoadModelMiss(0)
  \/ LoadModelLock(0)
  \/ LoadModelCompute(0)
  \/ ConstructOk(0)
  \/ ConstructFail(0)
  \/ InitState
  \/ StartTimer
  \/ TmpCreateOk
  \/ TmpCreateFail
  \/ TmpWriteOk
  \/ TmpWriteFail
  \/ EngineCall
  \/ EngineReturn
  \/ EngineRaise
  \/ StoreResult
  \/ StoreTime
  \/ FinallyOk
  \/ FinallyFail
  \/ Display
  \/ Tick

Spec == Init /\ [][Next]_vars

\* Several sessions share the process: their script runs interleave statement
\* by statement.  No conversion is started, so that every run is load_model,
\* the uploader and the result section.
NextSessions ==
  \/ Rerender
  \/ \E d \in Docs : Upload(d)
  \/ RemoveUpload
  \/ \E o \in Others : OtherRerun(o)
  \/ \E s \in Sessions : LoadModelHit(s)
  \/ \E s \in Sessions : LoadModelMiss(s)
  \/ \E s \in Sessions : LoadModelLock(s)
  \/ \E s \in Sessions : LoadModelRecheck(s)
  \/ \E s \in Sessions : LoadModelCompute(s)
  \/ \E s \in Sessions : ConstructOk(s)
  \/ \E s \in Sessions : ConstructFail(s)
  \/ \E o \in Others : OtherBody(o)
  \/ InitState
  \/ Display

SpecSessions == Init /\ [][NextSessions]_vars

----------------------------------------------------------------------------
\* Properties.

Idle == pc[0] = "idle"
\* Session 0 is idle and its latest run was started by the start button.
AfterAttempt == Idle /\ button
\* ... and in that run os.remove raised: the engine had finished, the file is
\* still there.
RemoveFailed ==
  /\ AfterAttempt
  /\ last.outcome \in {"ok", "engine_fail"}
  /\ created # None
  /\ created[1] \in fs

\* C1: a result section on the page shows, beside the uploaded PDF, the text
\* that was produced from that same PDF.
C1_ResultIsOfUploadedDocument ==
  shownResult # None =>
    shownResult[1].text = Some(EngineText(shownResult[1].pdf))

\* C2: after a conversion attempt, however it ended (the engine returned, the
\* engine raised, the write to the temporary file raised), the temporary file
\* created for it is gone.
C2_TempFileGone ==
  (AfterAttempt /\ created # None /\ uncaught # Some("os_remove")) =>
    created[1] \notin fs

\* C3: when a conversion fails and the next one succeeds, the session holds the
\* text and the elapsed time of the successful one, and that conversion ran on
\* the engine handle the failed one ran on, which is still the cached one.
C3_FailureIsolation ==
  (Idle /\ last.outcome = "ok" /\ prev.outcome \in {"engine_fail", "io_fail"}) =>
    /\ session_state["ocr_result"] = Some(EngineText(last.doc))
    /\ session_state["ocr_time"] = last.elapsed
    /\ last.handle = prev.handle
    /\ cache = last.handle

\* A conversion failed in the engine, the next one, of another document,
\* succeeded and is rendered.
C3_Witness ==
  /\ Idle
  /\ last.outcome = "ok"
  /\ prev.outcome = "engine_fail"
  /\ prev.doc # last.doc
  /\ shownResult # None
  /\ shownResult[1].text = Some(EngineText(last.doc))

\* C4: after an attempt on which the engine failed (and whose run reached its
\* end), an error message is on the page, no result is stored and no result
\* section is rendered.
C4_FailureLeavesNoResult ==
  (AfterAttempt /\ last.outcome = "engine_fail" /\ uncaught = None) =>
    /\ shownError
    /\ session_state["ocr_result"] = None
    /\ shownResult = None

\* C5 as stated: the body of load_model is executed at most once in the
\* process, all calls return one handle, and two handles never coexist.
C5_ConstructedAtMostOnce ==
  /\ constructed <= 1
  /\ Cardinality(returned) <= 1
  /\ Cardinality(handles) <= 1

\* C5 amended: the body of load_model completes at most once in the process (an
\* execution that raises leaves nothing cached and is repeated by the next
\* call), every call that returns returns the one cached handle, and two
\* handles never coexist.
C5_OneCachedHandle ==
  /\ Cardinality(handles) <= 1
  /\ returned \subseteq handles
  /\ cache # None => handles = {cache[1]}
  /\ cache = None => handles = {}
  /\ converter # None => converter = cache

\* The body of load_model has run twice (once raising), one handle exists, and
\* session 0 and another session both hold it.
C5_Witness ==
  /\ constructed = 2
  /\ Cardinality(handles) = 1
  /\ returned = handles
  /\ converter = cache
  /\ \E o \in Others : pc[o] = "body"

\* C6: the run of a failed attempt (engine, temporary file creation or write)
\* shows an error message, and no exception of the temporary file's creation
\* or write leaves main().
C6_FailuresCaught ==
  (AfterAttempt /\ last.outcome \in {"engine_fail", "io_fail"}) =>
    /\ shownError
    /\ uncaught \notin {Some("tmp_create"), Some("tmp_write")}

\* C7: when os.remove fails, no exception leaves main(); after a successful
\* conversion the stored result is rendered in that run, after a failed one the
\* error message is shown.
C7_RemoveFailureNotRaised ==
  RemoveFailed =>
    /\ uncaught = None
    /\ last.outcome = "ok" => (shownResult # None /\ shownResult = ResultSection)
    /\ last.outcome = "engine_fail" => shownError

\* C8: the timer is started once the temporary file has been written, and
\* stopped while that file still exists.
C8_TimerAroundEngineOnly ==
  /\ tWritten # None => start_time[1] >= tWritten[1]
  /\ pc[0] = "store_result" => temp_path[1] \in fs

\* C9: where the result is read for rendering, ocr_result and ocr_time are both
\* None or both set, and when set they are the text and the time of the latest
\* successful conversion.
C9_ResultPairConsistent ==
  pc[0] = "display" =>
    \/ /\ session_state["ocr_result"] = None
       /\ session_state["ocr_time"] = None
       /\ lastOk.doc = 0
    \/ /\ session_state["ocr_result"] = Some(EngineText(lastOk.doc))
       /\ session_state["ocr_time"] = lastOk.elapsed
       /\ lastOk.doc \in Docs
       /\ lastOk.elapsed # None

\* A second successful conversion, of another document, is about to be rendered.
C9_Witness ==
  /\ pc[0] = "display"
  /\ button
  /\ last.outcome = "ok"
  /\ prev.outcome = "ok"
  /\ prev.doc # last.doc
  /\ session_state["ocr_result"] = Some(EngineText(last.doc))
  /\ session_state["ocr_time"] # None

\* C10 as stated: between runs, the engine has been called as often as the
\* start button has been clicked.
C10_CallsEqualClicks ==
  Idle => engineCalls = clicks

\* C10 amended: the engine is never called more often than the start button
\* has been clicked, and between runs the calls are the clicks less the
\* attempts that ended at the creation or the write of the temporary file.
C10_CallsFollowClicks ==
  /\ engineCalls <= clicks
  /\ Idle => engineCalls + aborted = clicks

\* After two clicks, one attempt ended at the temporary file and one failed in
\* the engine; an upload has been rendered since.
C10_Witness ==
  /\ Idle
  /\ ~button
  /\ clicks = 2
  /\ aborted = 1
  /\ engineCalls = 1
  /\ last.outcome = "engine_fail"

====
